---- MODULE Spec2Model ----
(***************************************************************************)
(* Model of the SRT socket control layer (src/src/socket.rs): the          *)
(* SrtSocket handle, its lifecycle operations, its data operations and     *)
(* its typed option accessors, in front of the native engine (libsrt).     *)
(*                                                                         *)
(* Three specifications share the module:                                  *)
(*   Spec        the lifecycle machine: handle values held by a caller,    *)
(*               the engine's per-socket status, one action per public     *)
(*               lifecycle / data operation;                               *)
(*   SpecNative  the mapping each operation applies to the raw c_int the   *)
(*               native call returned, over a bounded range of c_int;      *)
(*   SpecOpt     the option accessors against a per-option byte store.     *)
(*                                                                         *)
(* The engine and crate::error (handle_result, SrtError) are not part of   *)
(* socket.rs; they are modelled from the design document (sections 4.2,    *)
(* 4.4 and 7).                                                             *)
(***************************************************************************)
EXTENDS Integers, Sequences, FiniteSets, TLC

VARIABLES
    handles,    \* caller-held SrtSocket values: slot -> [some, id]
    status,     \* engine: socket id -> lifecycle status
    nextId,     \* engine: next identifier srt_create_socket / srt_accept hands out
    closedIds,  \* ids on which close() has been called (history)
    last,       \* the last public operation: its inputs, native calls and result
    nat,        \* SpecNative: the last raw native result and what the wrapper made of it
    optStore,   \* SpecOpt: engine's per-option byte cells of one socket
    nSets,      \* SpecOpt: number of set accessor calls so far
    wrote,      \* SpecOpt: per property, the value its setter last stored (history)
    lastAcc,    \* SpecOpt: the last accessor call
    stats,      \* engine: the traffic counters of one socket
    thr         \* SpecThreads: per thread, the call it has in flight or returned from

vars == <<handles, status, nextId, closedIds, last, nat, optStore, nSets, wrote, lastAcc,
          stats, thr>>

lifeVars == <<handles, status, nextId, closedIds, last>>
optVars == <<optStore, nSets, wrote, lastAcc>>
auxVars == <<stats, thr>>

(***************************************************************************)
(* Bounds of the model.                                                    *)
(***************************************************************************)
MaxSockets == 2
MaxHandles == 2
MaxCands == 2
MaxLen == 1
MaxNeg == 3
MaxRet == 4
MaxSets == 1
MaxThreads == 2
MaxPkts == 1

Slots == 1..MaxHandles
Ids == 1..MaxSockets

(* A resolved candidate list: to_socket_addrs() yields an iterator; an    *)
(* address is named by its place in the resolver's order.                 *)
CandLists == {[i \in 1..n |-> i] : n \in 0..MaxCands}

(* What to_socket_addrs() can produce for an address specification. *)
Resolutions ==
    {[ok |-> FALSE, cands |-> <<>>]} \cup {[ok |-> TRUE, cands |-> c] : c \in CandLists}

(***************************************************************************)
(* Result<T, SrtError>                                                     *)
(***************************************************************************)
Ok(v) == [kind |-> "Ok", val |-> v]
Err(e) == [kind |-> "Err", err |-> e]
Panic == [kind |-> "Panic"]

IsOk(r) == r.kind = "Ok"
IsErr(r) == r.kind = "Err"
IsErrOf(r, e) == r.kind = "Err" /\ r.err = e

Unit == <<>>

(***************************************************************************)
(* SrtSocket { pub id: i32 }, #[derive(Copy, Clone, Debug)]                *)
(***************************************************************************)
NoHandle == [some |-> FALSE, id |-> 0]
SrtSocket(n) == [some |-> TRUE, id |-> n]

(* The type derives Copy: passing a handle by value copies it. *)
SrtSocketIsCopy == TRUE

(* The caller's slots after `h` was passed by value (self) to a method. *)
AfterByValue(hs, h) ==
    IF SrtSocketIsCopy THEN hs ELSE [hs EXCEPT ![h] = NoHandle]

(***************************************************************************)
(* Error taxonomy and translator (crate::error, design section 4.2 / 7).   *)
(* The engine leaves a last-error code; handle_result turns a failure      *)
(* result into Err(kind).                                                  *)
(***************************************************************************)
Translate(code) ==
    CASE code = "EINVOP" -> "InvalidOperationForState"
      [] code = "ECONNREJ" -> "ConnectionRejected"
      [] code = "ECONNLOST" -> "ConnectionBroken"
      [] code = "ESOCKFAIL" -> "SockFail"
      [] OTHER -> "NativeProtocolError"

handle_result(ok, return_code, code) ==
    IF return_code >= 0 THEN Ok(ok) ELSE Err(Translate(code))

(* handle_result reads the engine's last-error side channel on a failure. *)
ReadsLastError(return_code) == return_code < 0

(***************************************************************************)
(* The native engine's lifecycle (design section 4.4).                     *)
(***************************************************************************)
Statuses ==
    {"Init", "Opened", "Listening", "Connecting", "Connected",
     "Broken", "Closing", "Closed", "NonExist"}

Terminal == {"Closed", "NonExist"}

(* The transition table: the states an operation is defined from. *)
LegalFrom(fn) ==
    CASE fn = "srt_bind" -> {"Init"}
      [] fn = "srt_listen" -> {"Opened"}
      [] fn = "srt_connect" -> {"Opened"}
      [] fn = "srt_rendezvous" -> {"Init"}
      [] fn = "srt_accept" -> {"Listening"}
      [] fn = "srt_send" -> {"Connected"}
      [] fn = "srt_recv" -> {"Connected"}
      [] fn = "srt_close" -> Statuses \ Terminal
      [] OTHER -> {}

StatusOf(id) == IF id \in Ids THEN status[id] ELSE "NonExist"

(* Outcomes of one native call on a socket in status st: the returned     *)
(* c_int, the socket's next status and the last-error code left behind.   *)
Outcome(ret, st, code) == [ret |-> ret, st |-> st, code |-> code]

NativeOutcomes(fn, st, len) ==
    IF st \notin LegalFrom(fn) THEN {Outcome(-1, st, "EINVOP")}
    ELSE CASE fn = "srt_bind" ->
                {Outcome(0, "Opened", "none"), Outcome(-1, st, "EFAIL")}
           [] fn = "srt_listen" -> {Outcome(0, "Listening", "none")}
           [] fn = "srt_connect" ->
                {Outcome(0, "Connected", "none"), Outcome(-1, "Broken", "ECONNREJ")}
           [] fn = "srt_rendezvous" ->
                {Outcome(0, "Connected", "none"), Outcome(-1, "Broken", "ECONNREJ")}
           [] fn = "srt_send" ->
                {Outcome(len, st, "none"), Outcome(-1, "Broken", "ECONNLOST")}
           [] fn = "srt_recv" ->
                {Outcome(n, st, "none") : n \in 0..len}
                    \cup {Outcome(-1, "Broken", "ECONNLOST")}
           [] fn = "srt_close" -> {Outcome(0, "Closed", "none")}
           [] OTHER -> {}

SetStatus(id, st) == IF id \in Ids THEN [status EXCEPT ![id] = st] ELSE status

(* One native call as the layer logs it: the function, the identifier     *)
(* passed (0: none), the argument, the c_int returned and the last-error  *)
(* code the engine left.                                                  *)
Call(fn, id, arg, o) ==
    [fn |-> fn, id |-> id, arg |-> arg, ret |-> o.ret, code |-> o.code]

(* The record of a public operation on identifier id, taken as it ran:    *)
(* preSt is the socket's status before it, changed whether the engine's   *)
(* statuses differ after it, wasClosed whether close() had already been   *)
(* called on the identifier.                                              *)
OpRecord(op, id, res, calls, result, errRead, newStatus) ==
    [op |-> op, id |-> id, res |-> res, calls |-> calls, result |-> result,
     errRead |-> errRead, preSt |-> StatusOf(id),
     changed |-> (newStatus # status), wasClosed |-> (id \in closedIds)]

(***************************************************************************)
(* Option accessors.  Native representations on the 64-bit unix target.    *)
(***************************************************************************)
StrCap == 512

SizeOf(t) ==
    CASE t = "bool" -> 1
      [] t = "i32" -> 4
      [] t = "i64" -> 8
      [] t = "linger" -> 8
      [] t = "kmstate" -> 1
      [] t = "transtype" -> 4
      [] t = "String" -> 24
      [] t = "strbuf" -> StrCap
      [] OTHER -> 0

(* One accessor: its name, the property it names, the SRTO_ option it      *)
(* passes, the type of the object its pointer refers to, the type (or      *)
(* "len") whose size it declares, how the value is converted, and the      *)
(* initial value of a getter's local.                                      *)
Acc(name, kind, prop, opt, ty, decl, conv, init) ==
    [name |-> name, kind |-> kind, prop |-> prop, opt |-> opt, ty |-> ty,
     decl |-> decl, conv |-> conv, init |-> init]

Accessors ==
    { Acc("get_events", "get", "events", "SRTO_EVENT", "i32", "i32", "events", 0),
      Acc("get_flight_flag_size", "get", "flight_flag_size", "SRTO_FC", "i32", "i32", "i32", 0),
      Acc("get_input_bandwith", "get", "input_bandwith", "SRTO_INPUTBW", "i64", "i32", "i64", 0),
      Acc("get_ip_type_of_service", "get", "ip_type_of_service", "SRTO_IPTOS",
          "i32", "i32", "i32", 0),
      Acc("get_initial_sequence_number", "get", "initial_sequence_number", "SRTO_ISN",
          "i32", "i32", "i32", 0),
      Acc("get_ip_time_to_live", "get", "ip_time_to_live", "SRTO_IPTTL", "i32", "i32", "i32", 0),
      Acc("get_ipv6_only", "get", "ipv6_only", "SRTO_IPV6ONLY", "i32", "i32", "i32", 0),
      Acc("get_km_refresh_rate", "get", "km_refresh_rate", "SRTO_KMREFRESHRATE",
          "i32", "i32", "i32", 0),
      Acc("get_km_preannounce", "get", "km_preannounce", "SRTO_KMPREANNOUNCE",
          "i32", "i32", "i32", 0),
      Acc("get_linger", "get", "linger", "SRTO_LINGER", "linger", "i32", "linger", 0),
      Acc("get_max_reorder_tolerance", "get", "max_reorder_tolerance", "SRTO_LOSSMAXTTL",
          "i32", "i32", "i32", 0),
      Acc("get_max_bandwith", "get", "max_bandwith", "SRTO_MAXBW", "i64", "i32", "i64", 0),
      Acc("get_mss", "get", "mss", "SRTO_MSS", "i32", "i32", "i32", 0),
      Acc("get_nak_report", "get", "nak_report", "SRTO_NAKREPORT", "bool", "i32", "bool", 1),
      Acc("get_encryption_key_length", "get", "encryption_key_length", "SRTO_PBKEYLEN",
          "i32", "i32", "i32", 0),
      Acc("get_peer_latency", "get", "peer_latency", "SRTO_PEERLATENCY", "i32", "i32", "i32", 0),
      Acc("get_peer_version", "get", "peer_version", "SRTO_PEERVERSION", "i32", "i32", "i32", 0),
      Acc("get_receive_buffer", "get", "receive_buffer", "SRTO_RCVBUF", "i32", "i32", "i32", 0),
      Acc("get_receive_data", "get", "receive_data", "SRTO_RCVDATA", "i32", "i32", "i32", 0),
      Acc("get_receive_km_state", "get", "receive_km_state", "SRTO_RCVKMSTATE",
          "kmstate", "i32", "kmstate", 0),
      Acc("get_receive_latency", "get", "receive_latency", "SRTO_RCVLATENCY",
          "i32", "i32", "i32", 0),
      Acc("get_receive_blocking", "get", "receive_blocking", "SRTO_RCVSYN",
          "bool", "i32", "bool", 1),
      Acc("get_receive_timeout", "get", "receive_timeout", "SRTO_RCVTIMEO", "i32", "i32", "i32", 0),
      Acc("get_rendezvous", "get", "rendezvous", "SRTO_RENDEZVOUS", "bool", "i32", "bool", 0),
      Acc("get_reuse_address", "get", "reuse_address", "SRTO_REUSEADDR", "bool", "i32", "bool", 0),
      Acc("get_send_buffer", "get", "send_buffer", "SRTO_SNDBUF", "i32", "i32", "i32", 0),
      Acc("get_send_data", "get", "send_data", "SRTO_SNDDATA", "i32", "i32", "i32", 0),
      Acc("get_send_km_state", "get", "send_km_state", "SRTO_SNDKMSTATE",
          "kmstate", "i32", "kmstate", 0),
      Acc("get_send_blocking", "get", "send_blocking", "SRTO_SNDSYN", "bool", "i32", "bool", 1),
      Acc("get_send_timeout", "get", "send_timeout", "SRTO_SNDTIMEO", "i32", "i32", "i32", 0),
      Acc("get_stream_id", "get", "stream_id", "SRTO_STATE", "strbuf", "String", "string", 0),
      Acc("get_too_late_packet_drop", "get", "too_late_packet_drop", "SRTO_TLPKTDROP",
          "bool", "i32", "bool", 1),
      Acc("get_timestamp_based_packet_delivery_mode", "get", "timestamp_based_packet_delivery_mode", "SRTO_TSBPDMODE",
          "bool", "i32", "bool", 1),
      Acc("get_udp_receive_buffer", "get", "udp_receive_buffer", "SRTO_UDP_RCVBUF",
          "i32", "i32", "i32", 0),
      Acc("get_udp_send_buffer", "get", "udp_send_buffer", "SRTO_UDP_SNDBUF",
          "i32", "i32", "i32", 0),
      Acc("get_srt_version", "get", "srt_version", "SRTO_VERSION", "i32", "i32", "i32", 0),
      Acc("set_time_drift_tracer", "set", "time_drift_tracer", "SRTO_DRIFTTRACER",
          "bool", "i64", "bool", 0),
      Acc("set_input_bandwith", "set", "input_bandwith", "SRTO_INPUTBW", "i64", "i64", "i64", 0),
      Acc("set_recovery_bandwidth_overhead", "set", "recovery_bandwidth_overhead", "SRTO_OHEADBW",
          "i32", "i32", "i32", 0),
      Acc("set_receive_timeout", "set", "receive_timeout", "SRTO_RCVTIMEO", "i32", "i32", "i32", 0),
      Acc("set_send_blocking", "set", "send_blocking", "SRTO_SNDSYN", "bool", "bool", "bool", 0),
      Acc("set_send_timeout", "set", "send_timeout", "SRTO_SNDTIMEO", "i32", "i32", "i32", 0),
      Acc("set_bind_to_device", "set", "bind_to_device", "SRTO_BINDTODEVICE",
          "str", "len", "str", 0),
      Acc("set_connection_timeout", "set", "connection_timeout", "SRTO_CONNTIMEO",
          "i32", "i32", "i32", 0),
      Acc("set_flight_flag_size", "set", "flight_flag_size", "SRTO_FC", "i32", "i32", "i32", 0),
      Acc("set_ip_type_of_service", "set", "ip_type_of_service", "SRTO_IPTOS",
          "i32", "i32", "i32", 0),
      Acc("set_ipv4_time_to_live", "set", "ip_time_to_live", "SRTO_IPTTL", "i32", "i32", "i32", 0),
      Acc("set_ipv6_only", "set", "ipv6_only", "SRTO_IPV6ONLY", "i32", "i32", "i32", 0),
      Acc("set_km_refresh_rate", "set", "km_refresh_rate", "SRTO_KMREFRESHRATE",
          "i32", "i32", "i32", 0),
      Acc("set_km_preannounce", "set", "km_preannounce", "SRTO_KMPREANNOUNCE",
          "i32", "i32", "i32", 0),
      Acc("set_linger", "set", "linger", "SRTO_LINGER", "linger", "linger", "linger", 0),
      Acc("set_max_reorder_tolerance", "set", "max_reorder_tolerance", "SRTO_LOSSMAXTTL",
          "i32", "i32", "i32", 0),
      Acc("set_max_bandwith", "set", "max_bandwith", "SRTO_MAXBW", "i64", "i64", "i64", 0),
      Acc("set_message_api", "set", "message_api", "SRTO_MESSAGEAPI", "bool", "bool", "bool", 0),
      Acc("set_min_version", "set", "min_version", "SRTO_MINVERSION", "i32", "i32", "i32", 0),
      Acc("set_mss", "set", "mss", "SRTO_MSS", "i32", "i32", "i32", 0),
      Acc("set_nak_report", "set", "nak_report", "SRTO_NAKREPORT", "bool", "bool", "bool", 0),
      Acc("set_packet_filter", "set", "packet_filter", "SRTO_PACKETFILTER",
          "str", "len", "str512", 0),
      Acc("set_passphrase", "set", "passphrase", "SRTO_PASSPHRASE", "str", "len", "str", 0),
      Acc("set_payload_size", "set", "payload_size", "SRTO_PAYLOADSIZE", "i32", "i32", "i32", 0),
      Acc("set_encryption_key_length", "set", "encryption_key_length", "SRTO_PBKEYLEN",
          "i32", "i32", "i32", 0),
      Acc("set_peer_idle_timeout", "set", "peer_idle_timeout", "SRTO_PEERIDLETIMEO",
          "i32", "i32", "i32", 0),
      Acc("set_peer_latency", "set", "peer_latency", "SRTO_PEERLATENCY", "i32", "i32", "i32", 0),
      Acc("set_receive_buffer", "set", "receive_buffer", "SRTO_RCVBUF", "i32", "i32", "i32", 0),
      Acc("set_receive_latency", "set", "receive_latency", "SRTO_RCVLATENCY",
          "i32", "i32", "i32", 0),
      Acc("set_receive_blocking", "set", "receive_blocking", "SRTO_RCVSYN",
          "bool", "bool", "bool", 0),
      Acc("set_rendezvous", "set", "rendezvous", "SRTO_RENDEZVOUS", "bool", "bool", "bool", 0),
      Acc("set_retransmission_algorithm", "set", "retransmission_algorithm", "SRTO_RETRANSMITALGO",
          "i32", "i32", "bool_as_i32", 0),
      Acc("set_latency", "set", "latency", "SRTO_LATENCY", "i32", "i32", "i32", 0),
      Acc("set_sender", "set", "sender", "SRTO_SENDER", "bool", "bool", "bool", 0),
      Acc("set_reuse_address", "set", "reuse_address", "SRTO_REUSEADDR", "bool", "bool", "bool", 0),
      Acc("set_congestion_controller", "set", "congestion_controller", "SRTO_CONGESTION",
          "str", "len", "cc", 0),
      Acc("set_send_buffer", "set", "send_buffer", "SRTO_SNDBUF", "i32", "i32", "i32", 0),
      Acc("set_send_drop_delay", "set", "send_drop_delay", "SRTO_SNDDROPDELAY",
          "i32", "i32", "i32", 0),
      Acc("set_stream_id", "set", "stream_id", "SRTO_STREAMID", "str", "len", "str", 0),
      Acc("set_enforced_encryption", "set", "enforced_encryption", "SRTO_ENFORCEDENCRYPTION",
          "bool", "bool", "bool", 0),
      Acc("set_too_late_packet_drop", "set", "too_late_packet_drop", "SRTO_TLPKTDROP",
          "bool", "bool", "bool", 0),
      Acc("set_transmission_type", "set", "transmission_type", "SRTO_TRANSTYPE",
          "transtype", "transtype", "tt", 0),
      Acc("set_timestamp_based_packet_delivery_mode", "set", "timestamp_based_packet_delivery_mode", "SRTO_TSBPDMODE",
          "bool", "bool", "bool", 0),
      Acc("set_udp_send_buffer", "set", "udp_send_buffer", "SRTO_UDP_SNDBUF",
          "i32", "i32", "i32", 0),
      Acc("set_udp_receive_buffer", "set", "udp_receive_buffer", "SRTO_UDP_RCVBUF",
          "i32", "i32", "i32", 0) }

Getters == {a \in Accessors : a.kind = "get"}
Setters == {a \in Accessors : a.kind = "set"}
Options == {a.opt : a \in Accessors}
Props == {a.prop : a \in Accessors}

(* Little-endian two's complement bytes of an i32, and back. *)
I32Bytes(n) ==
    LET m == IF n >= 0 THEN n ELSE (n + 2147483647) + 1
    IN <<m % 256, (m \div 256) % 256, (m \div 65536) % 256,
         (m \div 16777216) + (IF n < 0 THEN 128 ELSE 0)>>

DecodeI32(b) ==
    LET m == b[1] + 256 * b[2] + 65536 * b[3] + 16777216 * (b[4] % 128)
    IN IF b[4] >= 128 THEN (m - 2147483647) - 1 ELSE m

(* An i64 is kept as its eight little-endian bytes. *)
I64OfInt(n) ==
    I32Bytes(n) \o (IF n < 0 THEN <<255, 255, 255, 255>> ELSE <<0, 0, 0, 0>>)

Zeros(n) == [i \in 1..n |-> 0]
Fill(n, b) == [i \in 1..n |-> b]
Str(n) == [i \in 1..n |-> 97]

(* The values the accessors are called with. *)
I32Values == {-1, 0, 5}
I64Values == {I64OfInt(0), I64OfInt(-1), <<0, 0, 0, 0, 1, 0, 0, 0>>}
StrValues == {Str(0), Str(1), Str(StrCap), Str(StrCap + 1)}

ArgValues(conv) ==
    CASE conv \in {"bool", "bool_as_i32"} -> BOOLEAN
      [] conv \in {"i32", "linger"} -> I32Values
      [] conv = "i64" -> I64Values
      [] conv \in {"str", "str512"} -> StrValues
      [] conv = "cc" -> {"Live", "File"}
      [] conv = "tt" -> {"Live", "File", "Invalid"}
      [] OTHER -> {}

(* The bytes of the object a setter points the engine at. *)
Encode(conv, v) ==
    CASE conv = "bool" -> <<IF v THEN 1 ELSE 0>>
      [] conv = "bool_as_i32" -> I32Bytes(IF v THEN 1 ELSE 0)
      [] conv = "i32" -> I32Bytes(v)
      [] conv = "i64" -> v
      [] conv = "linger" -> I32Bytes(IF v > 0 THEN 1 ELSE 0) \o I32Bytes(v)
      [] conv = "str" -> v
      [] conv = "str512" -> SubSeq(v, 1, StrCap)
      [] conv = "cc" -> IF v = "Live" THEN <<108, 105, 118, 101>>
                        ELSE <<102, 105, 108, 101>>
      [] conv = "tt" -> I32Bytes(CASE v = "Live" -> 0 [] v = "File" -> 1 [] OTHER -> 2)

KmStates == <<"Unsecured", "Securing", "Secured", "NoSecret", "BadSecret">>

(* The value a getter reads out of its local after the call. *)
Decode(conv, buf, optlen) ==
    CASE conv \in {"i32", "events"} -> DecodeI32(buf)
      [] conv = "i64" -> buf
      [] conv = "bool" -> buf[1] # 0
      [] conv = "linger" -> DecodeI32(SubSeq(buf, 5, 8))
      [] conv = "kmstate" -> IF buf[1] < Len(KmStates) THEN KmStates[buf[1] + 1]
                             ELSE "invalid discriminant"
      [] conv = "string" -> SubSeq(buf, 1, optlen)

(* A getter's local before the call. *)
InitialBuffer(a) ==
    CASE a.conv = "bool" -> <<a.init>>
      [] a.conv = "kmstate" -> <<0>>
      [] a.conv = "string" -> Fill(StrCap, 32)
      [] OTHER -> Zeros(SizeOf(a.ty))

(* The engine's cell of an option: of the option's native type, zeroed.    *)
EngineDefault(o) ==
    IF \E a \in Setters : a.opt = o
    THEN Zeros(SizeOf((CHOOSE a \in Setters : a.opt = o).ty))
    ELSE Zeros(4)

(* The engine copies exactly n bytes from src; bytes past the end of src   *)
(* are whatever lies there (fill).                                         *)
CopyExactly(src, n, fill) ==
    IF n <= Len(src) THEN SubSeq(src, 1, n) ELSE src \o Fill(n - Len(src), fill)

(* A local of Len(buf) bytes after n = Len(copied) bytes were written at   *)
(* its address: the bytes past its end land outside it.                    *)
Overlay(buf, copied) ==
    [i \in 1..Len(buf) |-> IF i <= Len(copied) THEN copied[i] ELSE buf[i]]

FillBytes == {0, 255}

(* The width a getter declares, and the one a setter declares for src.     *)
DeclaredGet(a) == SizeOf(a.decl)
DeclaredSet(a, src) == IF a.decl = "len" THEN Len(src) ELSE SizeOf(a.decl)

(* The engine's counters of one socket: packets since the last clearing   *)
(* read (interval) and since the socket was created (total).              *)
NoTraffic == [interval |-> 0, total |-> 0]

(* Threads of the caller's program, and a thread that is in no call. *)
Threads == 1..MaxThreads
Idle == [pc |-> "idle", op |-> "none", id |-> 0, cancelled |-> FALSE,
         result |-> Ok(Unit)]

Init ==
    /\ handles = [h \in Slots |-> NoHandle]
    /\ status = [i \in Ids |-> "NonExist"]
    /\ nextId = 1
    /\ closedIds = {}
    /\ last = [op |-> "none", id |-> 0, res |-> <<>>, calls |-> <<>>,
               result |-> Ok(Unit), errRead |-> FALSE,
               preSt |-> "NonExist", changed |-> FALSE, wasClosed |-> FALSE]
    /\ nat = [op |-> "none", ret |-> 0, code |-> "none", len |-> 0, arg |-> <<>>,
              result |-> Ok(Unit)]
    /\ optStore = [o \in Options |-> EngineDefault(o)]
    /\ nSets = 0
    /\ wrote = [p \in Props |-> <<>>]
    /\ lastAcc = [name |-> "none", kind |-> "none", prop |-> "none", opt |-> "none",
                  called |-> FALSE, declared |-> 0, pointee |-> 0, ret |-> 0,
                  oob |-> FALSE, result |-> Ok(Unit), argLen |-> 0]
    /\ stats = NoTraffic
    /\ thr = [t \in Threads |-> Idle]

(***************************************************************************)
(* `result as usize` on a 64-bit target: sign extension of the i32, kept   *)
(* as four 16-bit limbs, most significant first.                           *)
(***************************************************************************)
AsUsize(r) ==
    IF r >= 0 THEN <<0, 0, r \div 65536, r % 65536>>
    ELSE LET low31 == (r + 2147483647) + 1
         IN <<65535, 65535, 32768 + (low31 \div 65536), low31 % 65536>>

(* The byte count n as a usize. *)
USize(n) == <<0, 0, n \div 65536, n % 65536>>

(***************************************************************************)
(* The mapping each operation applies to the native call's c_int result.   *)
(***************************************************************************)
NewResult(result, code) ==
    IF result = -1 THEN handle_result(SrtSocket(0), result, code)
    ELSE Ok(SrtSocket(result))

BindResult_Placeholder(self, result, code) == handle_result(SrtSocket(0), result, code)

BindResult(self, result, code) == handle_result(self, result, code)

RendezvousResult(result, code) == handle_result(Unit, result, code)

ConnectResult(result, code) == handle_result(Unit, result, code)

ListenResult_IgnoresFailure(result, code) == Ok(Unit)

ListenResult(result, code) == handle_result(Unit, result, code)

AcceptResult_Placeholder(result, code, parses) == Ok(SrtSocket(0))

(* addr.into_addr().unwrap() panics when the filled buffer does not parse. *)
AcceptResult(result, code, parses) ==
    IF result = -1 THEN handle_result(SrtSocket(0), result, code)
    ELSE IF parses THEN Ok(SrtSocket(result)) ELSE Panic

CloseResult(result, code) == handle_result(Unit, result, code)

SendResult(result, code) ==
    IF result = -1 THEN handle_result(AsUsize(result), result, code)
    ELSE Ok(AsUsize(result))

RecvResult_AsByteCount(result, code) == Ok(AsUsize(result))

RecvResult(result, code) ==
    IF result = -1 THEN handle_result(AsUsize(result), result, code)
    ELSE Ok(AsUsize(result))

LastCandidate(cands) == cands[Len(cands)]

(* bind: `for addr in addrs { ...; return }`; connect: `target.next()`. *)
FirstCandidate(cands) == cands[1]

(* Whether an address specification yields a candidate to call with. *)
Resolves(res) == res.ok /\ Len(res.cands) >= 1

(***************************************************************************)
(* Engine: srt_create_socket and srt_accept allocate identifiers.          *)
(***************************************************************************)
CreateOutcome ==
    IF nextId <= MaxSockets THEN Outcome(nextId, "Init", "none")
    ELSE Outcome(-1, "NonExist", "ESOCKFAIL")

(* srt_accept on a listener in status st: a pending connection gets a new  *)
(* identifier; with none pending (or none left) the call fails.            *)
AcceptOutcomes(st) ==
    IF st \notin LegalFrom("srt_accept") THEN {Outcome(-1, st, "EINVOP")}
    ELSE {Outcome(-1, st, "EASYNCRCV")}
            \cup (IF nextId <= MaxSockets THEN {Outcome(nextId, st, "none")} ELSE {})

(***************************************************************************)
(* What the caller's program can do with handle values.                    *)
(***************************************************************************)
(* let t = s;  (Copy / Clone) *)
CopyHandle(h, h2) ==
    /\ SrtSocketIsCopy
    /\ h # h2
    /\ handles[h].some
    /\ handles' = [handles EXCEPT ![h2] = handles[h]]
    /\ UNCHANGED <<status, nextId, closedIds, last, nat, optVars, auxVars>>

(* SrtSocket { id: n }: the field is pub. *)
Construct(h, n) ==
    /\ ~handles[h].some
    /\ handles' = [handles EXCEPT ![h] = SrtSocket(n)]
    /\ UNCHANGED <<status, nextId, closedIds, last, nat, optVars, auxVars>>

(* A handle value goes out of scope: SrtSocket has no Drop. *)
Forget(h) ==
    /\ handles[h].some
    /\ handles' = [handles EXCEPT ![h] = NoHandle]
    /\ UNCHANGED <<status, nextId, closedIds, last, nat, optVars, auxVars>>

(***************************************************************************)
(* The public operations.                                                  *)
(***************************************************************************)
New(h) ==
    /\ ~handles[h].some
    /\ LET o == CreateOutcome
           result == NewResult(o.ret, o.code)
       IN /\ status' = IF o.ret >= 0 THEN SetStatus(o.ret, o.st) ELSE status
          /\ nextId' = IF o.ret >= 0 THEN nextId + 1 ELSE nextId
          /\ handles' = IF IsOk(result) THEN [handles EXCEPT ![h] = result.val]
                        ELSE handles
          /\ last' = OpRecord("new", 0, <<>>,
                              <<Call("srt_create_socket", 0, 0, o)>>,
                              result, o.ret = -1 /\ ReadsLastError(o.ret), status')
    /\ UNCHANGED <<closedIds, nat, optVars, auxVars>>

Bind(h, h2, res) ==
    /\ handles[h].some
    /\ LET self == handles[h]
           moved == AfterByValue(handles, h)
       IN IF Resolves(res)
          THEN \E o \in NativeOutcomes("srt_bind", StatusOf(self.id), 0) :
                 LET result == BindResult(self, o.ret, o.code)
                 IN /\ status' = SetStatus(self.id, o.st)
                    /\ handles' = IF IsOk(result)
                                  THEN [moved EXCEPT ![h2] = result.val]
                                  ELSE moved
                    /\ last' = OpRecord("bind", self.id, <<res>>,
                                 <<Call("srt_bind", self.id,
                                        FirstCandidate(res.cands), o)>>,
                                 result, ReadsLastError(o.ret), status')
          ELSE /\ status' = status
               /\ handles' = moved
               /\ last' = OpRecord("bind", self.id, <<res>>, <<>>,
                                   Err("SockFail"), FALSE, status')
    /\ UNCHANGED <<nextId, closedIds, nat, optVars, auxVars>>

Rendezvous(h, local, remote) ==
    /\ handles[h].some
    /\ LET self == handles[h]
       IN IF local.ok /\ remote.ok /\ Resolves(local) /\ Resolves(remote)
          THEN \E o \in NativeOutcomes("srt_rendezvous", StatusOf(self.id), 0) :
                 /\ status' = SetStatus(self.id, o.st)
                 /\ last' = OpRecord("rendezvous", self.id, <<local, remote>>,
                              <<Call("srt_rendezvous", self.id,
                                     <<FirstCandidate(local.cands),
                                       FirstCandidate(remote.cands)>>, o)>>,
                              RendezvousResult(o.ret, o.code), ReadsLastError(o.ret),
                              status')
          ELSE /\ status' = status
               /\ last' = OpRecord("rendezvous", self.id, <<local, remote>>, <<>>,
                                   Err("SockFail"), FALSE, status')
    /\ UNCHANGED <<handles, nextId, closedIds, nat, optVars, auxVars>>

Connect(h, res) ==
    /\ handles[h].some
    /\ LET self == handles[h]
       IN IF Resolves(res)
          THEN \E o \in NativeOutcomes("srt_connect", StatusOf(self.id), 0) :
                 /\ status' = SetStatus(self.id, o.st)
                 /\ last' = OpRecord("connect", self.id, <<res>>,
                              <<Call("srt_connect", self.id,
                                     FirstCandidate(res.cands), o)>>,
                              ConnectResult(o.ret, o.code), ReadsLastError(o.ret),
                              status')
          ELSE /\ status' = status
               /\ last' = OpRecord("connect", self.id, <<res>>, <<>>,
                                   Err("SockFail"), FALSE, status')
    /\ UNCHANGED <<handles, nextId, closedIds, nat, optVars, auxVars>>

Listen(h, backlog) ==
    /\ handles[h].some
    /\ LET self == handles[h]
       IN \E o \in NativeOutcomes("srt_listen", StatusOf(self.id), 0) :
            /\ status' = SetStatus(self.id, o.st)
            /\ last' = OpRecord("listen", self.id, <<>>,
                                <<Call("srt_listen", self.id, backlog, o)>>,
                                ListenResult(o.ret, o.code), ReadsLastError(o.ret),
                                status')
    /\ UNCHANGED <<handles, nextId, closedIds, nat, optVars, auxVars>>

Accept(h, h2, parses) ==
    /\ handles[h].some
    /\ LET self == handles[h]
       IN \E o \in AcceptOutcomes(StatusOf(self.id)) :
            LET result == AcceptResult(o.ret, o.code, parses)
            IN /\ status' = IF o.ret >= 0 THEN SetStatus(o.ret, "Connected")
                            ELSE status
               /\ nextId' = IF o.ret >= 0 THEN nextId + 1 ELSE nextId
               /\ handles' = IF IsOk(result) THEN [handles EXCEPT ![h2] = result.val]
                             ELSE handles
               /\ last' = OpRecord("accept", self.id, <<>>,
                                   <<Call("srt_accept", self.id, 0, o)>>,
                                   result, o.ret = -1 /\ ReadsLastError(o.ret), status')
    /\ UNCHANGED <<closedIds, nat, optVars, auxVars>>

Close(h) ==
    /\ handles[h].some
    /\ LET self == handles[h]
       IN \E o \in NativeOutcomes("srt_close", StatusOf(self.id), 0) :
            /\ status' = SetStatus(self.id, o.st)
            /\ handles' = AfterByValue(handles, h)
            /\ closedIds' = closedIds \cup {self.id}
            /\ last' = OpRecord("close", self.id, <<>>,
                                <<Call("srt_close", self.id, 0, o)>>,
                                CloseResult(o.ret, o.code), ReadsLastError(o.ret),
                                status')
    /\ UNCHANGED <<nextId, nat, optVars, auxVars>>

Send(h, len) ==
    /\ handles[h].some
    /\ LET self == handles[h]
       IN \E o \in NativeOutcomes("srt_send", StatusOf(self.id), len) :
            /\ status' = SetStatus(self.id, o.st)
            /\ last' = OpRecord("send", self.id, <<>>,
                                <<Call("srt_send", self.id, len, o)>>,
                                SendResult(o.ret, o.code),
                                o.ret = -1 /\ ReadsLastError(o.ret), status')
    /\ UNCHANGED <<handles, nextId, closedIds, nat, optVars, auxVars>>

Recv(h, len) ==
    /\ handles[h].some
    /\ LET self == handles[h]
       IN \E o \in NativeOutcomes("srt_recv", StatusOf(self.id), len) :
            /\ status' = SetStatus(self.id, o.st)
            /\ last' = OpRecord("recv", self.id, <<>>,
                                <<Call("srt_recv", self.id, len, o)>>,
                                RecvResult(o.ret, o.code),
                                o.ret = -1 /\ ReadsLastError(o.ret), status')
    /\ UNCHANGED <<handles, nextId, closedIds, nat, optVars, auxVars>>

Next ==
    \/ \E h \in Slots : New(h)
    \/ \E h, h2 \in Slots : \E res \in Resolutions : Bind(h, h2, res)
    \/ \E h \in Slots : \E local, remote \in Resolutions : Rendezvous(h, local, remote)
    \/ \E h \in Slots : \E res \in Resolutions : Connect(h, res)
    \/ \E h \in Slots : Listen(h, 1)
    \/ \E h, h2 \in Slots : \E parses \in BOOLEAN : Accept(h, h2, parses)
    \/ \E h \in Slots : Close(h)
    \/ \E h \in Slots : \E len \in 0..MaxLen : Send(h, len)
    \/ \E h \in Slots : \E len \in 0..MaxLen : Recv(h, len)
    \/ \E h, h2 \in Slots : CopyHandle(h, h2)
    \/ \E h \in Slots : \E n \in Ids : Construct(h, n)
    \/ \E h \in Slots : Forget(h)

Spec == Init /\ [][Next]_vars

(***************************************************************************)
(* Properties of the lifecycle machine (Spec).                             *)
(***************************************************************************)
NativeFn(op) ==
    CASE op = "bind" -> "srt_bind"
      [] op = "listen" -> "srt_listen"
      [] op = "connect" -> "srt_connect"
      [] op = "rendezvous" -> "srt_rendezvous"
      [] op = "accept" -> "srt_accept"
      [] op = "send" -> "srt_send"
      [] op = "recv" -> "srt_recv"
      [] op = "close" -> "srt_close"
      [] OTHER -> "none"

StateOps == {"bind", "listen", "connect", "rendezvous", "accept", "send", "recv", "close"}
AddressOps == {"bind", "connect", "rendezvous"}

(* The last operation was issued on a socket whose status is not one the  *)
(* transition table defines the operation from.                           *)
IllegalPair(r) == r.op \in StateOps /\ r.preSt \notin LegalFrom(NativeFn(r.op))

AllResolve(r) == \A i \in DOMAIN r.res : Resolves(r.res[i])

(* C1: after close() was called on a handle, its identifier is never      *)
(* passed to a native call again (a second close included).               *)
C1_NoNativeCallAfterClose ==
    \A i \in DOMAIN last.calls :
        last.calls[i].id # 0 => ~last.wasClosed

(* C2: no two handle values held by the caller carry the identifier of    *)
(* the same live socket.                                                  *)
C2_SoleOwner ==
    \A h1, h2 \in Slots :
        (h1 # h2 /\ handles[h1].some /\ handles[h2].some
            /\ StatusOf(handles[h1].id) \notin Terminal)
        => handles[h1].id # handles[h2].id

(* C3: close() returns Ok whatever the native close returned.             *)
C3_CloseNeverFails ==
    last.op = "close" => IsOk(last.result)

SocketFailureKind == Translate("ESOCKFAIL")

(* C9: when an address of bind / connect / rendezvous does not resolve    *)
(* (an error, or no candidate), no native call is made, no state changes, *)
(* and the error returned is an address error, not the socket failure.    *)
C9_AddressFailure ==
    (last.op \in AddressOps /\ ~AllResolve(last)) =>
        /\ last.calls = <<>>
        /\ ~last.changed
        /\ IsErr(last.result)
        /\ last.result.err # SocketFailureKind

(* C10: bind and connect with a resolved list of one or more candidates   *)
(* make exactly one native call, with the first candidate, and return     *)
(* handle_result of that call: no later candidate is tried on failure.    *)
C10_FirstCandidateOnly ==
    (last.op \in {"bind", "connect"} /\ AllResolve(last)) =>
        /\ Len(last.calls) = 1
        /\ last.calls[1].fn = NativeFn(last.op)
        /\ last.calls[1].id = last.id
        /\ last.calls[1].arg = last.res[1].cands[1]
        /\ IsOk(last.result) <=> last.calls[1].ret >= 0
        /\ IsOk(last.result) =>
             last.result.val = IF last.op = "bind" THEN SrtSocket(last.id) ELSE Unit
        /\ ~IsOk(last.result) =>
             IsErrOf(last.result, Translate(last.calls[1].code))

C10_Witness ==
    /\ last.op = "bind"
    /\ last.preSt = "Init"
    /\ Len(last.res[1].cands) = 2
    /\ Len(last.calls) = 1
    /\ last.calls[1].ret = -1
    /\ IsErr(last.result)

(* get_events converts the i32 with try_into().expect(..) before           *)
(* handle_result; the others hand the decoded local to handle_result.      *)
GetResult(a, buf, optlen, ret, code) ==
    IF a.conv = "events" /\ DecodeI32(buf) < 0 THEN Panic
    ELSE handle_result(Decode(a.conv, buf, optlen), ret, code)

SetResult(ret, code) == handle_result(Unit, ret, code)

OptCode(ret) == IF ret < 0 THEN "EINVPARAM" ELSE "none"

(***************************************************************************)
(* SpecNative: what new / accept / send / recv make of the c_int a native  *)
(* call returned, for every value in a bounded range of c_int (and the two *)
(* ends of i32), whatever last-error code accompanies a negative one.      *)
(***************************************************************************)
I32Min == -2147483647 - 1
I32Max == 2147483647

CInts == (-MaxNeg..MaxRet) \cup {I32Min, I32Max}

ErrorCodes == {"EINVOP", "ECONNREJ", "ECONNLOST", "ESOCKFAIL", "EFAIL"}

CodesFor(ret) == IF ret < 0 THEN ErrorCodes ELSE {"none"}

NatRecord(op, ret, code, len, arg, result) ==
    [op |-> op, ret |-> ret, code |-> code, len |-> len, arg |-> arg,
     result |-> result]

NativeNew(ret, code) ==
    /\ nat' = NatRecord("new", ret, code, 0, <<>>, NewResult(ret, code))
    /\ UNCHANGED <<lifeVars, optVars, auxVars>>

NativeAccept(ret, code, parses) ==
    /\ nat' = NatRecord("accept", ret, code, 0, [parses |-> parses],
                     AcceptResult(ret, code, parses))
    /\ UNCHANGED <<lifeVars, optVars, auxVars>>

NativeSend(len, ret, code) ==
    /\ nat' = NatRecord("send", ret, code, len, <<>>, SendResult(ret, code))
    /\ UNCHANGED <<lifeVars, optVars, auxVars>>

NativeRecv(len, ret, code) ==
    /\ nat' = NatRecord("recv", ret, code, len, <<>>, RecvResult(ret, code))
    /\ UNCHANGED <<lifeVars, optVars, auxVars>>

(***************************************************************************)
(* bistats: the statistics aggregate, kept by one total and one interval   *)
(* counter (pktSentTotal, pktSent).                                        *)
(***************************************************************************)
SRT_TRACEBSTATS(total, interval) == [pktSentTotal |-> total, pktSent |-> interval]

(* let mut stats = srt::SRT_TRACEBSTATS { msTimeStamp: 0, ... } *)
ZeroStats == SRT_TRACEBSTATS(0, 0)

(* The third argument of srt::srt_bstats(self.id, &mut stats, 1). *)
BistatsClearFlag == 1

(* Engine: srt_bstats fills the aggregate from the counters and, with a    *)
(* non-zero clear flag, resets the interval counters after the read.       *)
BstatsFills(st) == SRT_TRACEBSTATS(st.total, st.interval)
BstatsLeaves(st, clear) == IF clear # 0 THEN [st EXCEPT !.interval = 0] ELSE st

BistatsResult_Placeholder(snapshot, result, code) == Ok(snapshot)

BistatsResult(snapshot, result, code) == handle_result(snapshot, result, code)

(* Engine: a packet is sent on the socket. *)
Traffic ==
    /\ stats.total < MaxPkts
    /\ stats' = [interval |-> stats.interval + 1, total |-> stats.total + 1]
    /\ UNCHANGED <<lifeVars, optVars, nat, thr>>

(* bistats() called by a caller who wants the interval counters cleared    *)
(* (clear_interval) or kept; the method takes no such parameter.           *)
NativeBistats(clear_interval, ret, code) ==
    /\ LET filled == IF ret >= 0 THEN BstatsFills(stats) ELSE ZeroStats
           after == IF ret >= 0 THEN BstatsLeaves(stats, BistatsClearFlag) ELSE stats
       IN /\ stats' = after
          /\ nat' = NatRecord("bistats", ret, code, 0,
                              [clear_interval |-> clear_interval,
                               clear |-> BistatsClearFlag, calls |-> 1,
                               before |-> stats, after |-> after],
                              BistatsResult(filled, ret, code))
    /\ UNCHANGED <<lifeVars, optVars, thr>>

(***************************************************************************)
(* local_addr, peer_addr, get_sender_buffer and get_socket_state.          *)
(***************************************************************************)
(* "0.0.0.0:0".parse().unwrap(): the placeholder address. *)
PlaceholderAddr == "0.0.0.0:0"

(* addr.into_addr(): Some(address) when the filled buffer parses. *)
IntoAddr(filled, parses) == IF parses THEN <<filled>> ELSE <<>>

(* Option::unwrap panics on None. *)
IsNone(opt) == opt = <<>>
Unwrapped(opt) == opt[1]

LocalAddrResult(result, code, filled, parses) ==
    IF result = -1 THEN handle_result(PlaceholderAddr, result, code)
    ELSE IF IsNone(IntoAddr(filled, parses)) THEN Panic
         ELSE handle_result(Unwrapped(IntoAddr(filled, parses)), 0, code)

PeerAddrResult(result, code, filled, parses) ==
    IF result = -1 THEN handle_result(PlaceholderAddr, result, code)
    ELSE IF IsNone(IntoAddr(filled, parses)) THEN Panic
         ELSE handle_result(Unwrapped(IntoAddr(filled, parses)), result, code)

GetSenderBufferResult(blocks, bytes, result, code) ==
    IF result = -1 THEN handle_result(<<blocks, bytes>>, result, code)
    ELSE Ok(<<blocks, bytes>>)

(* srt::SRT_SOCKSTATUS as the binding names its values, and a value the    *)
(* binding does not name.                                                  *)
SRT_SOCKSTATUS ==
    {"SRTS_INIT", "SRTS_OPENED", "SRTS_LISTENING", "SRTS_CONNECTING",
     "SRTS_CONNECTED", "SRTS_BROKEN", "SRTS_CLOSING", "SRTS_CLOSED", "SRTS_NONEXIST"}

NativeStatusValues == SRT_SOCKSTATUS \cup {"unnamed"}

GetSocketStateResult_AlwaysOk(state, code) == Ok("Broken")

GetSocketStateResult(state, code) ==
    CASE state = "SRTS_INIT" -> handle_result("Init", 0, code)
      [] state = "SRTS_OPENED" -> handle_result("Opened", 0, code)
      [] state = "SRTS_LISTENING" -> handle_result("Listening", 0, code)
      [] state = "SRTS_CONNECTING" -> handle_result("Connecting", 0, code)
      [] state = "SRTS_CONNECTED" -> handle_result("Connected", 0, code)
      [] state = "SRTS_BROKEN" -> handle_result("Broken", 0, code)
      [] state = "SRTS_CLOSING" -> handle_result("Closing", 0, code)
      [] state = "SRTS_CLOSED" -> handle_result("Closed", 0, code)
      [] state = "SRTS_NONEXIST" -> handle_result("NonExist", 0, code)
      [] OTHER -> handle_result("Broken", -1, code)

(* The address the engine writes into the buffer of a successful call. *)
EngineAddr == "192.0.2.1:9000"

NativeLocalAddr(ret, code, parses) ==
    /\ nat' = NatRecord("local_addr", ret, code, 0, [parses |-> parses],
                        LocalAddrResult(ret, code, EngineAddr, parses))
    /\ UNCHANGED <<lifeVars, optVars, auxVars>>

NativePeerAddr(ret, code, parses) ==
    /\ nat' = NatRecord("peer_addr", ret, code, 0, [parses |-> parses],
                        PeerAddrResult(ret, code, EngineAddr, parses))
    /\ UNCHANGED <<lifeVars, optVars, auxVars>>

(* On success the engine has written the two counts; on failure the       *)
(* locals keep their initial 0.                                           *)
NativeGetSenderBuffer(blocks, bytes, ret, code) ==
    /\ nat' = NatRecord("get_sender_buffer", ret, code, 0, <<>>,
                        IF ret >= 0 THEN GetSenderBufferResult(blocks, bytes, ret, code)
                        ELSE GetSenderBufferResult(0, 0, ret, code))
    /\ UNCHANGED <<lifeVars, optVars, auxVars>>

NativeGetSocketState(state, code) ==
    /\ nat' = NatRecord("get_socket_state", 0, code, 0, [state |-> state],
                        GetSocketStateResult(state, code))
    /\ UNCHANGED <<lifeVars, optVars, auxVars>>

(* The reject-reason enumeration the translator maps a native reject code *)
(* into, in the order of the native codes 0, 1, 2, ...                     *)
SrtRejectReason ==
    <<"Unknown", "System", "Peer", "Resource", "Rogue", "Backlog", "Ipe",
      "Close", "Version", "RdvCookie", "BadSecret", "Unsecure", "MessageApi",
      "Congestion", "Filter", "Group", "Timeout">>

(* SRT_REJECT_REASON(code).into(): a code the enumeration names gives its  *)
(* member, any other unsigned code the member Unknown.                     *)
RejectReasonFrom(code) ==
    IF code < Len(SrtRejectReason) THEN SrtRejectReason[code + 1] ELSE "Unknown"

(* A value returned directly, outside a Result. *)
Value(v) == [kind |-> "Value", val |-> v]

(* result.try_into().expect("invalid reject code") converts the c_int to   *)
(* the unsigned representation of SRT_REJECT_REASON: a negative result     *)
(* fails the conversion and the expect panics.                             *)
GetRejectReasonResult(result) ==
    IF result < 0 THEN Panic ELSE Value(RejectReasonFrom(result))

NativeGetRejectReason(ret) ==
    /\ nat' = NatRecord("get_reject_reason", ret, "none", 0, <<>>,
                        GetRejectReasonResult(ret))
    /\ UNCHANGED <<lifeVars, optVars, auxVars>>

(* The key-material getters, over the values the engine can hold for the  *)
(* option. The engine writes its int through the pointer to the one-byte   *)
(* SrtKmState local; the local's first byte is then read as the enum's     *)
(* discriminant. A byte that is no discriminant of the five variants is an *)
(* invalid enum value: what the caller then observes is not defined, and   *)
(* is drawn from KmUndefined.                                              *)
MaxKm == 5

KmNativeValues == 0..MaxKm

KmGetters == {a \in Getters : a.conv = "kmstate"}

KmUndefined ==
    {Ok(KmStates[i]) : i \in DOMAIN KmStates} \cup {Ok("invalid discriminant"), Panic}

GetKmStateResult(a, buf, optlen, ret, code, ub) ==
    IF ret >= 0 /\ buf[1] >= Len(KmStates) THEN ub
    ELSE GetResult(a, buf, optlen, ret, code)

NativeGetKmState(a, v, ret, fill, ub) ==
    /\ a \in KmGetters
    /\ LET buf0 == InitialBuffer(a)
           declared == DeclaredGet(a)
           buf == IF ret >= 0
                  THEN Overlay(buf0, CopyExactly(I32Bytes(v), declared, fill))
                  ELSE buf0
       IN nat' = NatRecord(a.name, ret, OptCode(ret), 0,
                           [called |-> TRUE, native |-> v],
                           GetKmStateResult(a, buf, declared, ret, OptCode(ret), ub))
    /\ UNCHANGED <<lifeVars, optVars, auxVars>>

NativeBind(ret, code) ==
    /\ nat' = NatRecord("bind", ret, code, 0, <<>>, BindResult(SrtSocket(1), ret, code))
    /\ UNCHANGED <<lifeVars, optVars, auxVars>>

NativeListen(ret, code) ==
    /\ nat' = NatRecord("listen", ret, code, 0, <<>>, ListenResult(ret, code))
    /\ UNCHANGED <<lifeVars, optVars, auxVars>>

NativeConnect(ret, code) ==
    /\ nat' = NatRecord("connect", ret, code, 0, <<>>, ConnectResult(ret, code))
    /\ UNCHANGED <<lifeVars, optVars, auxVars>>

NativeRendezvous(ret, code) ==
    /\ nat' = NatRecord("rendezvous", ret, code, 0, <<>>, RendezvousResult(ret, code))
    /\ UNCHANGED <<lifeVars, optVars, auxVars>>

(* An option getter over success and the failure sentinel: on success the  *)
(* engine has written the option's cell into the local.                    *)
NativeGet(a, ret, fill) ==
    /\ a \in Getters
    /\ LET buf0 == InitialBuffer(a)
           declared == DeclaredGet(a)
           buf == IF ret >= 0
                  THEN Overlay(buf0, CopyExactly(optStore[a.opt], declared, fill))
                  ELSE buf0
       IN nat' = NatRecord(a.name, ret, OptCode(ret), 0, [called |-> TRUE],
                           GetResult(a, buf, declared, ret, OptCode(ret)))
    /\ UNCHANGED <<lifeVars, optVars, auxVars>>

NativeSet(a, v, ret) ==
    /\ a \in Setters
    /\ nat' = IF a.conv = "str512" /\ Len(v) < StrCap
              THEN NatRecord(a.name, 0, "none", 0, [called |-> FALSE], Panic)
              ELSE NatRecord(a.name, ret, OptCode(ret), 0, [called |-> TRUE],
                             SetResult(ret, OptCode(ret)))
    /\ UNCHANGED <<lifeVars, optVars, auxVars>>

NextNative ==
    \/ \E ret \in CInts : \E code \in CodesFor(ret) : NativeNew(ret, code)
    \/ \E ret \in CInts : \E code \in CodesFor(ret) : \E parses \in BOOLEAN :
          NativeAccept(ret, code, parses)
    \/ \E len \in 0..MaxLen : \E ret \in CInts : \E code \in CodesFor(ret) :
          NativeSend(len, ret, code)
    \/ \E len \in 0..MaxLen : \E ret \in CInts : \E code \in CodesFor(ret) :
          NativeRecv(len, ret, code)
    \/ Traffic
    \/ \E clear_interval \in BOOLEAN : \E ret \in CInts : \E code \in CodesFor(ret) :
          NativeBistats(clear_interval, ret, code)
    \/ \E ret \in CInts : \E code \in CodesFor(ret) : \E parses \in BOOLEAN :
          NativeLocalAddr(ret, code, parses)
    \/ \E ret \in CInts : \E code \in CodesFor(ret) : \E parses \in BOOLEAN :
          NativePeerAddr(ret, code, parses)
    \/ \E blocks, bytes \in 0..MaxLen : \E ret \in CInts : \E code \in CodesFor(ret) :
          NativeGetSenderBuffer(blocks, bytes, ret, code)
    \/ \E state \in NativeStatusValues : \E code \in ErrorCodes :
          NativeGetSocketState(state, code)
    \/ \E ret \in CInts : NativeGetRejectReason(ret)
    \/ \E a \in KmGetters : \E v \in KmNativeValues : \E ret \in {0, -1} :
          \E fill \in FillBytes : \E ub \in KmUndefined :
             NativeGetKmState(a, v, ret, fill, ub)
    \/ \E ret \in CInts : \E code \in CodesFor(ret) : NativeBind(ret, code)
    \/ \E ret \in CInts : \E code \in CodesFor(ret) : NativeListen(ret, code)
    \/ \E ret \in CInts : \E code \in CodesFor(ret) : NativeConnect(ret, code)
    \/ \E ret \in CInts : \E code \in CodesFor(ret) : NativeRendezvous(ret, code)
    \/ \E a \in Getters : \E ret \in {0, -1} : \E fill \in FillBytes :
          NativeGet(a, ret, fill)
    \/ \E a \in Setters : \E v \in ArgValues(a.conv) : \E ret \in {0, -1} :
          NativeSet(a, v, ret)

SpecNative == Init /\ [][NextNative]_vars

(* C4: send and recv return Ok(n) only for a non-negative native result   *)
(* n, and every negative native result comes back as Err.                 *)
C4_NegativeResultIsErr ==
    nat.op \in {"send", "recv"} =>
        /\ IsOk(nat.result) => (nat.ret >= 0 /\ nat.result.val = USize(nat.ret))
        /\ nat.ret < 0 => IsErr(nat.result)

(* C8: a handle returned by new() or accept() carries a non-negative      *)
(* identifier, whatever the native call returned.                         *)
C8_ReturnedIdNonNegative ==
    (nat.op \in {"new", "accept"} /\ IsOk(nat.result)) =>
        nat.result.val.id >= 0

GetOption(a, ret, fill) ==
    /\ a \in Getters
    /\ LET buf0 == InitialBuffer(a)
           declared == DeclaredGet(a)
           copied == CopyExactly(optStore[a.opt], declared, fill)
           buf == IF ret >= 0 THEN Overlay(buf0, copied) ELSE buf0
       IN lastAcc' = [name |-> a.name, kind |-> "get", prop |-> a.prop,
                      opt |-> a.opt, called |-> TRUE, declared |-> declared,
                      pointee |-> Len(buf0), ret |-> ret,
                      oob |-> (ret >= 0 /\ declared > Len(buf0)), argLen |-> 0,
                      result |-> GetResult(a, buf, declared, ret, OptCode(ret))]
    /\ UNCHANGED <<optStore, nSets, wrote, lifeVars, nat, auxVars>>

SetOption(a, v, ret, fill) ==
    /\ a \in Setters
    /\ nSets < MaxSets
    /\ nSets' = nSets + 1
    /\ IF a.conv = "str512" /\ Len(v) < StrCap
       THEN \* filter[..512] panics on a shorter string: no native call
            /\ lastAcc' = [name |-> a.name, kind |-> "set", prop |-> a.prop,
                           opt |-> a.opt, called |-> FALSE, declared |-> 0,
                           pointee |-> 0, ret |-> 0, oob |-> FALSE,
                           argLen |-> Len(v), result |-> Panic]
            /\ UNCHANGED <<optStore, wrote>>
       ELSE LET src == Encode(a.conv, v)
                declared == DeclaredSet(a, src)
            IN /\ optStore' = IF ret >= 0
                              THEN [optStore EXCEPT
                                       ![a.opt] = CopyExactly(src, declared, fill)]
                              ELSE optStore
               /\ wrote' = IF ret >= 0 THEN [wrote EXCEPT ![a.prop] = <<v>>]
                           ELSE wrote
               /\ lastAcc' = [name |-> a.name, kind |-> "set", prop |-> a.prop,
                              opt |-> a.opt, called |-> TRUE,
                              declared |-> declared, pointee |-> Len(src),
                              ret |-> ret, oob |-> FALSE,
                              argLen |-> IF a.conv \in {"str", "str512"}
                                         THEN Len(v) ELSE Len(src),
                              result |-> SetResult(ret, OptCode(ret))]
    /\ UNCHANGED <<lifeVars, nat, auxVars>>

NextOpt ==
    \/ \E a \in Getters : \E ret \in {0, -1} : \E fill \in FillBytes :
          GetOption(a, ret, fill)
    \/ \E a \in Setters : \E v \in ArgValues(a.conv) : \E ret \in {0, -1} :
          \E fill \in FillBytes : SetOption(a, v, ret, fill)

SpecOpt == Init /\ [][NextOpt]_vars

(* C5: the byte width an accessor passes to the native get / set call is   *)
(* the size of the object its pointer refers to.                           *)
C5_DeclaredWidthIsPointeeSize ==
    lastAcc.called => lastAcc.declared = lastAcc.pointee

(* C6: a getter called after its property's setter stored v returns v.     *)
C6_RoundTrip ==
    (lastAcc.kind = "get" /\ lastAcc.ret >= 0 /\ wrote[lastAcc.prop] # <<>>)
        => (IsOk(lastAcc.result) /\ lastAcc.result.val = wrote[lastAcc.prop][1])

(* The byte-string option setters of the 512-byte cap. *)
ByteStringSetters ==
    {a \in Setters : a.name \in {"set_stream_id", "set_passphrase", "set_packet_filter"}}

(* The number of bytes a byte-string setter hands the engine for v, or -1  *)
(* when it makes no native call for v.                                     *)
BytesPassed(a, v) ==
    IF a.conv = "str512" /\ Len(v) < StrCap THEN -1
    ELSE DeclaredSet(a, Encode(a.conv, v))

(* C13: a byte-string setter passes an input of at most 512 bytes to the   *)
(* native call unchanged and without panicking, an input of exactly 512    *)
(* bytes succeeds when the engine accepts it, and a longer input is        *)
(* rejected or cut to 512 bytes, the same way by all three setters.        *)
C13_ByteStringBoundary ==
    /\ (lastAcc.name \in {a.name : a \in ByteStringSetters}
          /\ lastAcc.argLen <= StrCap)
         => /\ lastAcc.result # Panic
            /\ lastAcc.called
            /\ lastAcc.declared = lastAcc.argLen
            /\ lastAcc.ret >= 0 => IsOk(lastAcc.result)
    /\ (lastAcc.name \in {a.name : a \in ByteStringSetters}
          /\ lastAcc.argLen > StrCap)
         => /\ lastAcc.result # Panic
            /\ lastAcc.called => lastAcc.declared = StrCap
            /\ \A b \in ByteStringSetters :
                  BytesPassed(b, Str(lastAcc.argLen))
                      = (IF lastAcc.called THEN lastAcc.declared ELSE -1)

(* C14: bistats passes the caller's clear flag to the native call: a       *)
(* snapshot asked for with clear_interval = FALSE leaves the interval      *)
(* counters as they were, and clear_interval = TRUE resets them.           *)
C14_ClearFlagFromCaller ==
    nat.op = "bistats" =>
        /\ nat.arg.clear = (IF nat.arg.clear_interval THEN 1 ELSE 0)
        /\ (nat.ret >= 0 /\ ~nat.arg.clear_interval)
              => nat.arg.after.interval = nat.arg.before.interval
        /\ (nat.ret >= 0 /\ nat.arg.clear_interval) => nat.arg.after.interval = 0

(* C15: bistats returns Ok with the aggregate the one successful native    *)
(* call filled, or Err; after a failed native call the zeroed placeholder  *)
(* is not returned as a snapshot.                                          *)
C15_SnapshotOrErr ==
    nat.op = "bistats" =>
        /\ nat.arg.calls = 1
        /\ IsOk(nat.result) \/ IsErr(nat.result)
        /\ IsOk(nat.result)
              => (nat.ret >= 0 /\ nat.result.val = BstatsFills(nat.arg.before))
        /\ nat.ret < 0 => IsErr(nat.result)

C15_Witness ==
    /\ nat.op = "bistats"
    /\ nat.ret = -1
    /\ nat.arg.before.total > 0
    /\ IsErr(nat.result)

(* The operations whose record carries whether the native call was made. *)
AccessorNames == {a.name : a \in Accessors}

NativeCallMade == IF nat.op \in AccessorNames THEN nat.arg.called ELSE TRUE

(* C16: every public operation other than close returns Err when its       *)
(* native call returns the failure sentinel -1, never Ok with the          *)
(* pre-initialised value, and returns Ok when the native call succeeds.    *)
C16_FailureIsErrSuccessIsOk ==
    (nat.op \notin {"none", "close", "get_socket_state", "get_reject_reason"}
        /\ NativeCallMade) =>
        /\ nat.ret = -1 => IsErr(nat.result)
        /\ nat.ret >= 0 => IsOk(nat.result)

(* The half of C16 the code keeps: the failure sentinel always comes back  *)
(* as Err.                                                                 *)
SentinelIsErr ==
    (nat.op \notin {"none", "close", "get_socket_state", "get_reject_reason"}
        /\ NativeCallMade) =>
        (nat.ret = -1 => IsErr(nat.result))

(* C18: when the native call reports success and the buffer it filled      *)
(* does not parse into a socket address, accept, local_addr and peer_addr  *)
(* return Err; they do not panic.                                          *)
C18_UnparseableAddressIsErr ==
    (nat.op \in {"accept", "local_addr", "peer_addr"}
        /\ nat.ret >= 0 /\ ~nat.arg.parses)
        => IsErr(nat.result)

(* The control-layer state of the same name as a native status value. *)
SameName ==
    [SRTS_INIT |-> "Init", SRTS_OPENED |-> "Opened", SRTS_LISTENING |-> "Listening",
     SRTS_CONNECTING |-> "Connecting", SRTS_CONNECTED |-> "Connected",
     SRTS_BROKEN |-> "Broken", SRTS_CLOSING |-> "Closing", SRTS_CLOSED |-> "Closed",
     SRTS_NONEXIST |-> "NonExist"]

(* C20: get_socket_state returns Ok with the state named like the native   *)
(* status value for each of the nine values, NonExist included, and Err    *)
(* for any other value.                                                    *)
C20_SocketStateMapping ==
    nat.op = "get_socket_state" =>
        IF nat.arg.state \in SRT_SOCKSTATUS
        THEN nat.result = Ok(SameName[nat.arg.state])
        ELSE IsErr(nat.result)

C20_Witness ==
    /\ nat.op = "get_socket_state"
    /\ nat.arg.state = "SRTS_NONEXIST"
    /\ nat.result = Ok("NonExist")

(* C17: a connect or rendezvous the peer refuses returns                   *)
(* ConnectionRejected, and the operation itself reads the socket's reject  *)
(* reason (srt_getrejectreason on its identifier) to put it in the error.  *)
C17_RejectionCarriesReason ==
    (last.op \in {"connect", "rendezvous"}
        /\ last.calls # <<>>
        /\ last.calls[1].ret = -1
        /\ last.calls[1].code = "ECONNREJ")
        => /\ IsErrOf(last.result, Translate("ECONNREJ"))
           /\ \E i \in DOMAIN last.calls :
                 /\ last.calls[i].fn = "srt_getrejectreason"
                 /\ last.calls[i].id = last.id

(* C19: a successful accept on a Listening socket returns the identifier   *)
(* the engine has just allocated, different from the listener's; the       *)
(* listener stays Listening and no other socket changes; a close changes   *)
(* the state of no socket but the one it is called on.                     *)
C19_AcceptedSocketIndependent ==
    [][ /\ (last'.op = "accept" /\ IsOk(last'.result) /\ nextId' # nextId
              /\ last'.preSt = "Listening")
            => /\ last'.result.val.id = nextId
               /\ status[nextId] = "NonExist"
               /\ last'.result.val.id # last'.id
               /\ status'[last'.id] = "Listening"
               /\ \A i \in Ids \ {nextId} : status'[i] = status[i]
        /\ last'.op = "close"
            => \A i \in Ids \ {last'.id} : status'[i] = status[i]
      ]_vars

C19_Witness ==
    /\ last.op = "close"
    /\ IsOk(last.result)
    /\ last.preSt = "Connected"
    /\ status[last.id] = "Closed"
    /\ \E i \in Ids \ {last.id} : status[i] = "Listening"
    /\ \E h \in Slots : handles[h].some /\ StatusOf(handles[h].id) = "Listening"

(***************************************************************************)
(* SpecThreads: the public API called from several threads.  SrtSocket is  *)
(* Copy and holds only an i32, so it is Send and Sync and every thread can *)
(* hold the same identifier; the methods take &self (close and bind take   *)
(* the Copy value) and own no lock.  A call is in flight from the moment   *)
(* the thread enters the native function until that function returns.     *)
(***************************************************************************)
ThreadOps ==
    {"new", "bind", "listen", "connect", "accept", "send", "recv", "close", "set"}

(* The calls that suspend the calling thread in blocking mode. *)
BlockingOps == {"accept", "send", "recv"}

(* The calls the engine documents as reentrant on one identifier. *)
ReentrantOps == {"accept", "send", "recv"}

InFlight(op, id, slot) ==
    [pc |-> "inflight", op |-> op, id |-> id, slot |-> slot, cancelled |-> FALSE,
     result |-> Ok(Unit)]

(* The return of a call that a close cancelled, as its caller sees it. *)
Returned(call, result) ==
    [pc |-> "returned", op |-> call.op, id |-> 0, cancelled |-> call.cancelled,
     result |-> result]

(* Engine: an option set is accepted on any socket that still exists. *)
SetOutcomes(st) ==
    IF st \in Terminal THEN {Outcome(-1, st, "EINVOP")} ELSE {Outcome(0, st, "none")}

(* Engine: what the native function of a call can return now. *)
ThreadOutcomes(op, id) ==
    CASE op = "new" -> {CreateOutcome}
      [] op = "accept" -> AcceptOutcomes(StatusOf(id))
      [] op = "set" -> SetOutcomes(StatusOf(id))
      [] op \in {"send", "recv"} -> NativeOutcomes(NativeFn(op), StatusOf(id), MaxLen)
      [] OTHER -> NativeOutcomes(NativeFn(op), StatusOf(id), 0)

(* Engine: a call blocked on a socket that another thread closed returns   *)
(* the failure result with a broken-connection error.                      *)
CancelOutcome(id) == Outcome(-1, StatusOf(id), "ECONNLOST")

(* What the method makes of the native result. *)
ThreadResult(op, id, o, parses) ==
    CASE op = "new" -> NewResult(o.ret, o.code)
      [] op = "bind" -> BindResult(SrtSocket(id), o.ret, o.code)
      [] op = "listen" -> ListenResult(o.ret, o.code)
      [] op = "connect" -> ConnectResult(o.ret, o.code)
      [] op = "accept" -> AcceptResult(o.ret, o.code, parses)
      [] op = "send" -> SendResult(o.ret, o.code)
      [] op = "recv" -> RecvResult(o.ret, o.code)
      [] op = "close" -> CloseResult(o.ret, o.code)
      [] op = "set" -> SetResult(o.ret, o.code)

(* The other threads' calls a close of id cancels: those blocked on id. *)
Cancel(t, id) ==
    [u \in Threads |->
        IF u # t /\ thr[u].pc = "inflight" /\ thr[u].id = id
              /\ thr[u].op \in BlockingOps
        THEN [thr[u] EXCEPT !.cancelled = TRUE] ELSE thr[u]]

(* Thread t enters a method on the handle in slot h (new: to be stored in   *)
(* slot h; accept: the accepted handle to be stored in slot h2).           *)
Begin(t, op, h, h2) ==
    /\ thr[t].pc # "inflight"
    /\ IF op = "new" THEN ~handles[h].some /\ h2 = h ELSE handles[h].some
    /\ op # "accept" => h2 = h
    /\ thr' = [thr EXCEPT ![t] =
                  InFlight(op, IF op = "new" THEN 0 ELSE handles[h].id, h2)]
    /\ UNCHANGED <<handles, status, nextId, closedIds, last, nat, optVars, stats>>

(* The native function of thread t's call returns, the method maps its    *)
(* result and hands it to the caller; the thread is in no call again.      *)
Complete(t, parses) ==
    /\ thr[t].pc = "inflight"
    /\ ~thr[t].cancelled
    /\ LET call == thr[t]
       IN \E o \in ThreadOutcomes(call.op, call.id) :
            LET result == ThreadResult(call.op, call.id, o, parses)
                allocates == call.op \in {"new", "accept"} /\ o.ret >= 0
                after == IF call.op = "close" /\ o.ret >= 0
                         THEN Cancel(t, call.id) ELSE thr
            IN /\ status' = IF allocates
                            THEN SetStatus(o.ret, IF call.op = "new" THEN "Init"
                                                  ELSE "Connected")
                            ELSE SetStatus(call.id, o.st)
               /\ nextId' = IF allocates THEN nextId + 1 ELSE nextId
               /\ handles' = IF allocates /\ IsOk(result)
                             THEN [handles EXCEPT ![call.slot] = result.val]
                             ELSE handles
               /\ thr' = [after EXCEPT ![t] = Idle]
    /\ UNCHANGED <<closedIds, last, nat, optVars, stats>>

(* The engine wakes thread t's blocked call after the socket was closed. *)
Wake(t) ==
    /\ thr[t].pc = "inflight"
    /\ thr[t].cancelled
    /\ LET call == thr[t]
           o == CancelOutcome(call.id)
       IN thr' = [thr EXCEPT ![t] =
                     Returned(call, ThreadResult(call.op, call.id, o, TRUE))]
    /\ UNCHANGED <<handles, status, nextId, closedIds, last, nat, optVars, stats>>

NextThreads ==
    \/ \E t \in Threads : \E op \in ThreadOps : \E h, h2 \in Slots : Begin(t, op, h, h2)
    \/ \E t \in Threads : \E parses \in BOOLEAN : Complete(t, parses)
    \/ \E t \in Threads : Wake(t)

SpecThreads == Init /\ [][NextThreads]_vars

(* The engine signals every caller blocked on a closed socket. *)
SpecThreadsFair == SpecThreads /\ \A t \in Threads : WF_vars(Wake(t))

(* C11: a send, recv or accept that is blocked on a socket when another    *)
(* thread closes it eventually returns, and what it returns is an Err.     *)
C11_BlockedCallReturnsErr ==
    /\ [](\A t \in Threads :
            (thr[t].pc = "returned" /\ thr[t].cancelled) => IsErr(thr[t].result))
    /\ \A t \in Threads :
          (thr[t].pc = "inflight" /\ thr[t].cancelled) ~> (thr[t].pc = "returned")

C11_Witness ==
    \E t \in Threads :
        /\ thr[t].pc = "returned"
        /\ thr[t].cancelled
        /\ thr[t].op = "recv"
        /\ IsErr(thr[t].result)

(* C12: no two calls are in flight on one identifier at the same time      *)
(* unless both are reentrant (accept, send, recv).                         *)
C12_OneNonReentrantCallInFlight ==
    \A t, u \in Threads :
        (t # u /\ thr[t].pc = "inflight" /\ thr[u].pc = "inflight"
            /\ thr[t].op # "new" /\ thr[u].op # "new" /\ thr[t].id = thr[u].id)
        => (thr[t].op \in ReentrantOps /\ thr[u].op \in ReentrantOps)

(* The return code get_socket_state hands to handle_result: 0 after one   *)
(* of the nine named arms, the literal -1 in the `_` arm.                  *)
GetSocketStateCode(state) == IF state \in SRT_SOCKSTATUS THEN 0 ELSE -1

(* The return code the recorded operation handed to handle_result, as a    *)
(* one-element sequence; empty when it returned without calling it.        *)
HandedToTranslator(r) ==
    CASE r.op = "none" -> <<>>
      [] r.op \in {"new", "accept", "send", "recv", "get_sender_buffer"} ->
            IF r.ret = -1 THEN <<r.ret>> ELSE <<>>
      [] r.op = "local_addr" ->
            IF r.ret = -1 THEN <<r.ret>> ELSE IF r.arg.parses THEN <<0>> ELSE <<>>
      [] r.op = "peer_addr" ->
            IF r.ret = -1 THEN <<r.ret>> ELSE IF r.arg.parses THEN <<r.ret>> ELSE <<>>
      [] r.op = "get_socket_state" -> <<GetSocketStateCode(r.arg.state)>>
      [] r.op = "get_reject_reason" -> <<>>
      [] r.op \in AccessorNames -> IF r.arg.called THEN <<r.ret>> ELSE <<>>
      [] OTHER -> <<r.ret>>

(* Whether the recorded operation read the last-error side channel. *)
LastErrorRead(r) ==
    HandedToTranslator(r) # <<>> /\ ReadsLastError(HandedToTranslator(r)[1])

(* Whether the native call of the recorded operation returned a failure:   *)
(* srt_getsockstate returns a status and has no failure result.            *)
NativeCallFailed(r) ==
    /\ r.op \notin {"none", "get_socket_state", "get_reject_reason"}
    /\ r.op \in AccessorNames => r.arg.called
    /\ r.ret < 0

(* C21: the last-error side channel is read only after a native call of    *)
(* the operation returned a failure; no operation hands the translator a   *)
(* failure code that no native call returned.                              *)
C21_LastErrorOnlyAfterFailure ==
    LastErrorRead(nat) => NativeCallFailed(nat)

(* C22: for every integer srt_getrejectreason returns, negative and        *)
(* out-of-range codes included, get_reject_reason returns a member of the  *)
(* reject-reason enumeration and does not panic.                           *)
C22_RejectReasonTotal ==
    nat.op = "get_reject_reason" =>
        /\ nat.result # Panic
        /\ nat.result.kind = "Value"
        /\ \E i \in DOMAIN SrtRejectReason : nat.result.val = SrtRejectReason[i]

(* C23: get_send_km_state and get_receive_km_state return, for the native  *)
(* values 0..4, Unsecured, Securing, Secured, NoSecret, BadSecret in that  *)
(* order, and for every other native value an error or one of the five     *)
(* states, never a value outside the enumeration.                          *)
C23_KmStateWithinEnumeration ==
    (nat.op \in {a.name : a \in KmGetters} /\ "native" \in DOMAIN nat.arg) =>
        IF nat.arg.native \in 0..4 /\ nat.ret >= 0
        THEN nat.result = Ok(KmStates[nat.arg.native + 1])
        ELSE \/ IsErr(nat.result)
             \/ IsOk(nat.result) /\ \E i \in DOMAIN KmStates : nat.result.val = KmStates[i]

(* C24: for every option getter, the length declared to the native get    *)
(* call does not exceed the bytes of the local the passed pointer points   *)
(* at, so an engine writing up to the declared length stays inside it.     *)
C24_DeclaredLengthWithinBuffer ==
    (lastAcc.kind = "get" /\ lastAcc.called) =>
        /\ lastAcc.declared <= lastAcc.pointee
        /\ ~lastAcc.oob

(* C25: a getter queries the native option identifier that the setter of  *)
(* the same property writes; get_stream_id reads the option set_stream_id  *)
(* writes.                                                                 *)
C25_GetterReadsSetterOption ==
    (lastAcc.kind = "get" /\ lastAcc.called) =>
        \A s \in Setters : s.prop = lastAcc.prop => s.opt = lastAcc.opt

====
